---- MODULE Spec2Model ----
(***************************************************************************)
(* Model of the i18n code generator (src/src/code_gen.rs) and the parts of *)
(* the Lokalise records (src/src/lokalise_client.rs) and of the Scala AST  *)
(* (src/src/scala_ast.rs) it builds on.                                    *)
(*                                                                         *)
(* A text (Rust String / &str) is a sequence of one-character strings.     *)
(* Text the program writes from a literal of its own ("Locale.", "String") *)
(* is kept as one chunk, a TLA+ string, unless the program compares it or  *)
(* derives it from data, in which case it is spelled character by          *)
(* character.                                                              *)
(***************************************************************************)
EXTENDS Integers, Sequences, FiniteSets, TLC

VARIABLES
    raw,        \* find_placeholders: the argument s
    found,      \* find_placeholders: the value returned
    key,        \* translation_method: the argument key
    method,     \* translation_method: the value returned
    projects,   \* generate_code: the argument projects
    ast,        \* generate_code: the local ast it renders, None if it failed before
    result,     \* generate_code: the value returned
    rerun       \* a second run: the input it was given and the value returned

vars == <<raw, found, key, method, projects, ast, result, rerun>>

\* The value of a variable no step has written yet.
None == [tag |-> "None"]

(***************************************************************************)
(* Characters.  AsciiOrder lists the characters the model's texts are made *)
(* of in increasing code-point order, which is the order Rust's str and    *)
(* String compare by.                                                      *)
(***************************************************************************)
AsciiOrder ==
    <<" ", "\"", "$", "%", ",", ":",
      "A", "B", "C", "D", "E", "F", "G", "H", "I", "J", "K", "L", "M",
      "N", "O", "P", "Q", "R", "S", "T", "U", "V", "W", "X", "Y", "Z",
      "[", "]", "_",
      "a", "b", "c", "d", "e", "f", "g", "h", "i", "j", "k", "l", "m",
      "n", "o", "p", "q", "r", "s", "t", "u", "v", "w", "x", "y", "z",
      "{", "}">>

Chars == {AsciiOrder[i] : i \in 1..Len(AsciiOrder)}

CodeOf == [c \in Chars |-> CHOOSE i \in 1..Len(AsciiOrder) : AsciiOrder[i] = c]

Code(c) == CodeOf[c]

\* The distance in AsciiOrder from an upper-case letter to its lower-case one.
CaseOffset == Code("a") - Code("A")

is_uppercase(c) == Code(c) >= Code("A") /\ Code(c) <= Code("Z")
is_lowercase(c) == Code(c) >= Code("a") /\ Code(c) <= Code("z")
is_alphanumeric(c) == is_uppercase(c) \/ is_lowercase(c)

to_lowercase(c) == IF is_uppercase(c) THEN AsciiOrder[Code(c) + CaseOffset] ELSE c
to_uppercase(c) == IF is_lowercase(c) THEN AsciiOrder[Code(c) - CaseOffset] ELSE c

\* s[from..to-1] in Rust's zero-based half-open notation is Slice(s, from+1, to).
Slice(s, a, b) == IF a > b THEN <<>> ELSE SubSeq(s, a, b)

\* Ord for str: lexicographic by character code, a proper prefix first.
RECURSIVE StrLess(_, _)
StrLess(s, t) ==
    IF t = <<>> THEN FALSE
    ELSE IF s = <<>> THEN TRUE
    ELSE IF Head(s) = Head(t) THEN StrLess(Tail(s), Tail(t))
    ELSE Code(Head(s)) < Code(Head(t))

StrLeq(s, t) == s = t \/ StrLess(s, t)

\* s starts with p at (one-based) position i.
StartsAt(s, p, i) ==
    /\ i + Len(p) - 1 <= Len(s)
    /\ \A j \in 1..Len(p) : s[i + j - 1] = p[j]

Contains(s, p) == \E i \in 1..(Len(s) + 1) : StartsAt(s, p, i)

\* str::replace(from, to): every non-overlapping occurrence, left to right.
RECURSIVE ReplaceFrom(_, _, _, _)
ReplaceFrom(s, from, to, i) ==
    IF i > Len(s) THEN <<>>
    ELSE IF from # <<>> /\ StartsAt(s, from, i)
         THEN to \o ReplaceFrom(s, from, to, i + Len(from))
         ELSE <<s[i]>> \o ReplaceFrom(s, from, to, i + 1)

replace(s, from, to) == ReplaceFrom(s, from, to, 1)

RECURSIVE Concat(_)
Concat(ss) == IF ss = <<>> THEN <<>> ELSE Head(ss) \o Concat(Tail(ss))

(***************************************************************************)
(* The case conversions of the heck crate (to_mixed_case, to_camel_case,   *)
(* to_title_case).  All three run the same transform: the text is cut into *)
(* words (unicode_words: maximal runs of letters and '_', a ':' between    *)
(* two letters staying inside its word; runs without a letter are          *)
(* dropped), each word is cut again at '_' and at case changes, and the    *)
(* pieces are re-cased and joined.                                         *)
(***************************************************************************)
WordChar(s, i) ==
    \/ is_alphanumeric(s[i])
    \/ s[i] = "_"
    \/ /\ s[i] = ":"
       /\ i > 1 /\ i < Len(s)
       /\ is_alphanumeric(s[i - 1]) /\ is_alphanumeric(s[i + 1])

\* The end of the run of word characters that starts at i.
RECURSIVE WordEnd(_, _)
WordEnd(s, i) ==
    IF i < Len(s) /\ WordChar(s, i + 1) THEN WordEnd(s, i + 1) ELSE i

HasLetter(w) == \E i \in 1..Len(w) : is_alphanumeric(w[i])

RECURSIVE UnicodeWordsFrom(_, _)
UnicodeWordsFrom(s, i) ==
    IF i > Len(s) THEN <<>>
    ELSE IF ~WordChar(s, i) THEN UnicodeWordsFrom(s, i + 1)
    ELSE LET e == WordEnd(s, i)
             w == SubSeq(s, i, e)
         IN  (IF HasLetter(w) THEN <<w>> ELSE <<>>) \o UnicodeWordsFrom(s, e + 1)

unicode_words(s) == UnicodeWordsFrom(s, 1)

\* The loop of transform over one word: i is the character looked at, init
\* the start of the piece being collected, mode the WordMode.
RECURSIVE WordPieces(_, _, _, _)
WordPieces(word, i, init, mode) ==
    IF i > Len(word) THEN <<>>
    ELSE LET c == word[i] IN
      IF c = "_"
      THEN WordPieces(word, i + 1, IF init = i THEN init + 1 ELSE init, mode)
      ELSE IF i = Len(word)
      THEN <<Slice(word, init, Len(word))>>
      ELSE LET next == word[i + 1]
               next_mode == IF is_lowercase(c) THEN "Lowercase"
                            ELSE IF is_uppercase(c) THEN "Uppercase"
                            ELSE mode
           IN  IF next = "_" \/ (next_mode = "Lowercase" /\ is_uppercase(next))
               THEN <<Slice(word, init, i)>>
                        \o WordPieces(word, i + 1, i + 1, "Boundary")
               ELSE IF mode = "Uppercase" /\ is_uppercase(c) /\ is_lowercase(next)
               THEN <<Slice(word, init, i - 1)>>
                        \o WordPieces(word, i + 1, i, "Boundary")
               ELSE WordPieces(word, i + 1, init, next_mode)

RECURSIVE PiecesOfWords(_)
PiecesOfWords(ws) ==
    IF ws = <<>> THEN <<>>
    ELSE WordPieces(Head(ws), 1, 1, "Boundary") \o PiecesOfWords(Tail(ws))

\* The pieces transform hands to with_word, in order.
Pieces(s) == PiecesOfWords(unicode_words(s))

lowercase(s) == [i \in 1..Len(s) |-> to_lowercase(s[i])]

capitalize(s) ==
    [i \in 1..Len(s) |-> IF i = 1 THEN to_uppercase(s[i]) ELSE to_lowercase(s[i])]

\* with_word of to_mixed_case: lowercase while out is empty, else capitalize.
RECURSIVE MixedJoin(_, _)
MixedJoin(ps, out) ==
    IF ps = <<>> THEN out
    ELSE MixedJoin(Tail(ps),
                   out \o (IF out = <<>> THEN lowercase(Head(ps))
                                         ELSE capitalize(Head(ps))))

to_mixed_case(s) == MixedJoin(Pieces(s), <<>>)

\* to_camel_case: every piece capitalized, no boundary text.
RECURSIVE CamelJoin(_)
CamelJoin(ps) ==
    IF ps = <<>> THEN <<>> ELSE capitalize(Head(ps)) \o CamelJoin(Tail(ps))

to_camel_case(s) == CamelJoin(Pieces(s))

\* to_title_case: every piece capitalized, one space before all but the first.
RECURSIVE TitleJoin(_, _)
TitleJoin(ps, first_word) ==
    IF ps = <<>> THEN <<>>
    ELSE (IF first_word THEN <<>> ELSE <<" ">>)
             \o capitalize(Head(ps)) \o TitleJoin(Tail(ps), FALSE)

to_title_case(s) == TitleJoin(Pieces(s), TRUE)

(***************************************************************************)
(* Result<T>: Ok(value) or Err(error).  The error is named by its kind;    *)
(* the message text of anyhow's Error is not modelled.                     *)
(***************************************************************************)
Ok(v) == [ok |-> TRUE, value |-> v]
Err(e) == [ok |-> FALSE, error |-> e]

\* Iterator<Result<T>>::collect::<Result<Vec<T>>>(): the first error, or all values.
RECURSIVE CollectResults(_)
CollectResults(rs) ==
    IF rs = <<>> THEN Ok(<<>>)
    ELSE IF ~Head(rs).ok THEN Head(rs)
    ELSE LET rest == CollectResults(Tail(rs))
         IN  IF rest.ok THEN Ok(<<Head(rs).value>> \o rest.value) ELSE rest

(***************************************************************************)
(* Placeholder extraction.                                                 *)
(***************************************************************************)
\* impl FromStr for PlaceholderKind
PlaceholderKind_from_str(s) ==
    IF s = <<"s">> THEN Ok("String")
    ELSE IF s = <<"i">> THEN Ok("Integer")
    ELSE Err("UnsupportedPlaceholderKind")

\* The kind tags the regular expression RE admits in its first group: [si].
RegexKindTags == {"s", "i"}

\* The first ']' at or after position i, or 0.
RECURSIVE NextClose(_, _)
NextClose(s, i) ==
    IF i > Len(s) THEN 0
    ELSE IF s[i] = "]" THEN i
    ELSE NextClose(s, i + 1)

\* RE = \[%([si]):([^\]]+)\] matched at position p: the position of the
\* closing ']' of the match, or 0 when RE does not match at p.
RegexMatchEnd(s, p) ==
    IF /\ p + 5 <= Len(s)
       /\ s[p] = "[" /\ s[p + 1] = "%"
       /\ s[p + 2] \in RegexKindTags
       /\ s[p + 3] = ":"
       /\ s[p + 4] # "]"
    THEN NextClose(s, p + 5)
    ELSE 0

\* RE.captures_iter(s): the matches, leftmost first, none overlapping.  A
\* capture is [whole, kind, name]: groups 0, 1 and 2.
RECURSIVE CapturesFrom(_, _)
CapturesFrom(s, p) ==
    IF p > Len(s) THEN <<>>
    ELSE LET e == RegexMatchEnd(s, p) IN
         IF e = 0 THEN CapturesFrom(s, p + 1)
         ELSE <<[whole |-> SubSeq(s, p, e),
                 kind  |-> SubSeq(s, p + 2, p + 2),
                 name  |-> SubSeq(s, p + 4, e - 1)]>>
                  \o CapturesFrom(s, e + 1)

captures_iter(s) == CapturesFrom(s, 1)

\* struct Placeholder
Placeholder(name, kind, matched) == [name |-> name, kind |-> kind, matched |-> matched]

\* The closure of find_placeholders applied to one capture.
PlaceholderOfCapture(caps) ==
    LET kind == PlaceholderKind_from_str(caps.kind)
    IN  IF ~kind.ok THEN kind
        ELSE Ok(Placeholder(to_mixed_case(caps.name), kind.value, caps.whole))

PlaceholdersOf(caps) ==
    CollectResults([i \in 1..Len(caps) |-> PlaceholderOfCapture(caps[i])])

find_placeholders(s) == PlaceholdersOf(captures_iter(s))

(***************************************************************************)
(* serde_json::from_str::<TranslationWithCardinality>.  The texts of the   *)
(* model hold no backslash, digit or control character, so a JSON string   *)
(* runs from its opening quote to the next quote, and a JSON value is a    *)
(* string, an array, an object or one of true, false, null.  A position    *)
(* of 0 stands for a syntax error.                                         *)
(***************************************************************************)
RECURSIVE SkipWs(_, _)
SkipWs(s, i) == IF i >= 1 /\ i <= Len(s) /\ s[i] = " " THEN SkipWs(s, i + 1) ELSE i

At(s, i) == IF i >= 1 /\ i <= Len(s) THEN s[i] ELSE "EOF"

RECURSIVE NextQuote(_, _)
NextQuote(s, i) ==
    IF i > Len(s) THEN 0
    ELSE IF s[i] = "\"" THEN i
    ELSE NextQuote(s, i + 1)

\* A string value at i (after white space): its text and the position after it.
FailedString == [next |-> 0, text |-> <<>>]

StringUpTo(s, i, q) ==
    IF q = 0 THEN FailedString
    ELSE [next |-> q + 1, text |-> Slice(s, i + 1, q - 1)]

StringAt(s, i) ==
    StringUpTo(s, i, IF At(s, i) = "\"" THEN NextQuote(s, i + 1) ELSE 0)

ParseString(s, i0) == StringAt(s, SkipWs(s, i0))

JsonTrue == <<"t", "r", "u", "e">>
JsonFalse == <<"f", "a", "l", "s", "e">>
JsonNull == <<"n", "u", "l", "l">>

\* Any JSON value at i (serde's IgnoredAny): the position after it.
RECURSIVE SkipValue(_, _)
RECURSIVE SkipValueAt(_, _)
RECURSIVE SkipArray(_, _)
RECURSIVE SkipObject(_, _)
RECURSIVE SkipElements(_, _)
RECURSIVE ElementsNext(_, _)
RECURSIVE SkipMembers(_, _)
RECURSIVE ValueAfterColon(_, _)
RECURSIVE MembersNext(_, _)
SkipValue(s, i0) == SkipValueAt(s, SkipWs(s, i0))

SkipValueAt(s, i) ==
    CASE At(s, i) = "\"" -> StringAt(s, i).next
      [] At(s, i) = "[" -> SkipArray(s, SkipWs(s, i + 1))
      [] At(s, i) = "{" -> SkipObject(s, SkipWs(s, i + 1))
      [] StartsAt(s, JsonTrue, i) -> i + Len(JsonTrue)
      [] StartsAt(s, JsonFalse, i) -> i + Len(JsonFalse)
      [] StartsAt(s, JsonNull, i) -> i + Len(JsonNull)
      [] OTHER -> 0

\* After '[' and white space: the position after the array's ']'.
SkipArray(s, j) == IF At(s, j) = "]" THEN j + 1 ELSE SkipElements(s, j)

\* After '{' and white space: the position after the object's '}'.
SkipObject(s, j) == IF At(s, j) = "}" THEN j + 1 ELSE SkipMembers(s, j)

\* The elements of an array from i on, up to and including its ']'.
SkipElements(s, i) == ElementsNext(s, SkipWs(s, SkipValue(s, i)))

ElementsNext(s, j) ==
    IF At(s, j) = "," THEN SkipElements(s, j + 1)
    ELSE IF At(s, j) = "]" THEN j + 1
    ELSE 0

\* The members of an object from i on, up to and including its '}'.
SkipMembers(s, i) ==
    MembersNext(s, SkipWs(s, ValueAfterColon(s, SkipWs(s, ParseString(s, i).next))))

ValueAfterColon(s, c) == IF At(s, c) = ":" THEN SkipValue(s, c + 1) ELSE 0

MembersNext(s, j) ==
    IF At(s, j) = "," THEN SkipMembers(s, j + 1)
    ELSE IF At(s, j) = "}" THEN j + 1
    ELSE 0

FieldOne == <<"o", "n", "e">>
FieldOther == <<"o", "t", "h", "e", "r">>

NoField == [set |-> FALSE, text |-> <<>>]
SomeField(t) == [set |-> TRUE, text |-> t]

FailedVisit == [next |-> 0, one |-> NoField, other |-> NoField]

\* visit_map of the derived Deserialize: the members from i on, with the
\* fields read so far.  Gives the position after '}' (0: error) and the fields.
\* A field met twice is an error, a field of another name is skipped.
RECURSIVE VisitMap(_, _, _, _)
RECURSIVE VisitField(_, _, _, _, _)
RECURSIVE VisitOne(_, _, _)
RECURSIVE VisitOther(_, _, _)
RECURSIVE VisitNext(_, _, _, _)
VisitMember(s, k, one, other) == VisitField(s, k.text, SkipWs(s, k.next), one, other)

VisitMap(s, i, one, other) == VisitMember(s, ParseString(s, i), one, other)

VisitField(s, name, c, one, other) ==
    IF \/ At(s, c) # ":"
       \/ name = FieldOne /\ one.set
       \/ name = FieldOther /\ other.set
    THEN FailedVisit
    ELSE IF name = FieldOne THEN VisitOne(s, ParseString(s, c + 1), other)
    ELSE IF name = FieldOther THEN VisitOther(s, ParseString(s, c + 1), one)
    ELSE VisitNext(s, SkipWs(s, SkipValue(s, c + 1)), one, other)

VisitOne(s, str, other) ==
    VisitNext(s, SkipWs(s, str.next), SomeField(str.text), other)

VisitOther(s, str, one) ==
    VisitNext(s, SkipWs(s, str.next), one, SomeField(str.text))

VisitNext(s, j, one, other) ==
    IF At(s, j) = "," THEN VisitMap(s, j + 1, one, other)
    ELSE IF At(s, j) = "}" THEN [next |-> j + 1, one |-> one, other |-> other]
    ELSE FailedVisit

\* visit_seq of the derived Deserialize: a sequence of exactly the two
\* fields in declaration order, from i on, up to and including its ']'.
SeqEnd(s, first, second, j) ==
    IF second.next # 0 /\ At(s, j) = "]"
    THEN [next |-> j + 1, one |-> SomeField(first.text),
          other |-> SomeField(second.text)]
    ELSE FailedVisit

SeqSecond(s, first, second) == SeqEnd(s, first, second, SkipWs(s, second.next))

SeqComma(s, first, c) ==
    SeqSecond(s, first,
              IF At(s, c) = "," THEN ParseString(s, c + 1) ELSE FailedString)

SeqFirst(s, first) == SeqComma(s, first, SkipWs(s, first.next))

VisitSeq(s, i) == SeqFirst(s, ParseString(s, i))

\* deserialize_struct: a map or a sequence, at i.
MapAfterBrace(s, j) ==
    IF At(s, j) = "}" THEN [next |-> j + 1, one |-> NoField, other |-> NoField]
    ELSE VisitMap(s, j, NoField, NoField)

DeserializeStruct(s, i) ==
    IF At(s, i) = "{" THEN MapAfterBrace(s, SkipWs(s, i + 1))
    ELSE IF At(s, i) = "[" THEN VisitSeq(s, i + 1)
    ELSE FailedVisit

\* Both fields must have been given, and from_str allows only white space
\* after the value.
Deserialized(s, r) ==
    IF r.next # 0 /\ r.one.set /\ r.other.set /\ SkipWs(s, r.next) > Len(s)
    THEN Ok([one |-> r.one.text, other |-> r.other.text])
    ELSE Err("MalformedCardinalityPayload")

\* struct TranslationWithCardinality { one, other }, read from JSON text.
from_str_TranslationWithCardinality(s) ==
    Deserialized(s, DeserializeStruct(s, SkipWs(s, 1)))

(***************************************************************************)
(* Method synthesis.                                                       *)
(***************************************************************************)
\* A faulty all_same that never looks at the name for the other platforms.
all_same_but_other(key_name) ==
    /\ key_name.ios = key_name.android
    /\ key_name.android = key_name.web

\* KeyName::all_same
all_same(key_name) ==
    /\ key_name.ios = key_name.android
    /\ key_name.android = key_name.web
    /\ key_name.web = key_name.other

\* scala_ast: Ident, Param, MatchClause, the three kinds of Expr, MethodDef.
Ident(name) == [name |-> name]
Param(name, ty) == [name |-> name, ty |-> ty]
MatchClause(pattern, expr) == [pattern |-> pattern, expr |-> expr]
ExprMatch(expr, clauses) == [tag |-> "Match", expr |-> expr, clauses |-> clauses]
ExprStrLit(value, interpolate) ==
    [tag |-> "StrLit", value |-> value, interpolate |-> interpolate]
ExprVar(name) == [tag |-> "Var", name |-> name]

\* The identifiers the synthesizer adds on its own.
CardinalityName == <<"c", "a", "r", "d", "i", "n", "a", "l", "i", "t", "y">>
LocaleName == <<"l", "o", "c", "a", "l", "e">>

\* Seq over a set's elements, every one once, names never decreasing: what
\* collecting a HashSet into a Vec (in the set's iteration order, which
\* differs from run to run) and then sort_unstable_by_key(name) can leave.
MinByName(P) == {x \in P : \A y \in P : StrLeq(x.name, y.name)}

RECURSIVE SortedByName(_)
SortedByName(P) ==
    IF P = {} THEN {<<>>}
    ELSE UNION {{<<x>> \o rest : rest \in SortedByName(P \ {x})} : x \in MinByName(P)}

RECURSIVE Flatten(_)
Flatten(vs) == IF vs = <<>> THEN <<>> ELSE Head(vs) \o Flatten(Tail(vs))

Range(f) == {f[i] : i \in DOMAIN f}

ParamType(kind) == IF kind = "String" THEN "String" ELSE "Int"

ParamsOf(placeholders) ==
    [i \in 1..Len(placeholders) |->
        Param(Ident(placeholders[i].name), ParamType(placeholders[i].kind))]

\* build_method_params: the results it can give for key, one per order the
\* hash set can be read in.
MethodParamsOf(found_all) ==
    IF ~found_all.ok THEN {found_all}
    ELSE {Ok([placeholders |-> ps, method_params |-> ParamsOf(ps)]) :
             ps \in SortedByName(Range(Flatten(found_all.value)))}

build_method_params(k) ==
    MethodParamsOf(CollectResults(
        [i \in 1..Len(k.translations) |->
            find_placeholders(k.translations[i].translation)]))

\* format!("${{{}}}", name)
InterpolationRef(name) == <<"$", "{">> \o name \o <<"}">>

RECURSIVE ReplaceAll(_, _)
ReplaceAll(translation, placeholders) ==
    IF placeholders = <<>> THEN translation
    ELSE ReplaceAll(replace(translation, Head(placeholders).matched,
                            InterpolationRef(Head(placeholders).name)),
                    Tail(placeholders))

build_translated_value_with_interpolations(translation, placeholders) ==
    ExprStrLit(ReplaceAll(translation, placeholders), placeholders # <<>>)

\* format!("Locale.{}", language_iso.to_title_case())
LocalePattern(language_iso) == <<"Locale.">> \o to_title_case(language_iso)

MethodDef(name, params, body, comment) ==
    [name |-> name,
     params |-> params,
     implicit_params |-> <<Param(Ident(LocaleName), "Locale")>>,
     body |-> body,
     return_type |-> "String",
     comment |-> comment]

\* The closure of translation_method_with_cardinality applied to one
\* translation, cases being what the decoder gave for its raw text.
CardinalityClauseOf(translation, placeholders, cases) ==
    IF ~cases.ok THEN cases
    ELSE Ok(MatchClause(
             LocalePattern(translation.language_iso),
             ExprMatch(ExprVar(Ident(CardinalityName)),
                <<MatchClause(<<"Cardinality.Singular">>,
                     build_translated_value_with_interpolations(
                         cases.value.one, placeholders)),
                  MatchClause(<<"Cardinality.Plural">>,
                     build_translated_value_with_interpolations(
                         cases.value.other, placeholders))>>)))

\* A faulty CardinalityClause that hands the other text to Singular and the
\* one text to Plural.
SwappedCases(cases) ==
    IF ~cases.ok THEN cases
    ELSE Ok([one |-> cases.value.other, other |-> cases.value.one])

CardinalityClauseSwapped(translation, placeholders) ==
    CardinalityClauseOf(translation, placeholders,
        SwappedCases(from_str_TranslationWithCardinality(translation.translation)))

CardinalityClause(translation, placeholders) ==
    CardinalityClauseOf(translation, placeholders,
        from_str_TranslationWithCardinality(translation.translation))

\* The end of translation_method_with_cardinality, the clauses collected.
MethodWithCardinality(k, method_params, locale_match_clauses) ==
    IF ~locale_match_clauses.ok THEN locale_match_clauses
    ELSE Ok(MethodDef(Ident(to_mixed_case(k.key_name.ios)),
                      Append(method_params,
                             Param(Ident(CardinalityName), "Cardinality")),
                      ExprMatch(ExprVar(Ident(LocaleName)),
                                locale_match_clauses.value),
                      k.key_name.ios))

\* translation_method_with_cardinality, bmp being what build_method_params gave.
translation_method_with_cardinality(k, bmp) ==
    IF ~bmp.ok THEN bmp
    ELSE MethodWithCardinality(k, bmp.value.method_params,
             CollectResults(
                 [i \in 1..Len(k.translations) |->
                     CardinalityClause(k.translations[i], bmp.value.placeholders)]))

\* translation_method_without_cardinality, bmp being what build_method_params gave.
translation_method_without_cardinality(k, bmp) ==
    IF ~bmp.ok THEN bmp
    ELSE LET placeholders == bmp.value.placeholders
             locale_match_clauses ==
                 [i \in 1..Len(k.translations) |->
                     MatchClause(
                         LocalePattern(k.translations[i].language_iso),
                         build_translated_value_with_interpolations(
                             k.translations[i].translation, placeholders))]
         IN  Ok(MethodDef(Ident(to_mixed_case(k.key_name.ios)),
                          bmp.value.method_params,
                          ExprMatch(ExprVar(Ident(LocaleName)), locale_match_clauses),
                          k.key_name.ios))

\* translation_method: the results it can give for key.
translation_method(k) ==
    IF ~all_same(k.key_name) THEN {Err("InconsistentKeyName")}
    ELSE IF k.is_plural
    THEN {translation_method_with_cardinality(k, bmp) : bmp \in build_method_params(k)}
    ELSE {translation_method_without_cardinality(k, bmp) : bmp \in build_method_params(k)}

(***************************************************************************)
(* Unit assembly: generate_code and what it calls.                         *)
(***************************************************************************)
\* scala_ast: the kinds of Item, and TopLevel.  NoSuper is super_type: None.
NoSuper == <<>>
ItemPackage(segments) == [tag |-> "Package", segments |-> segments]
ItemTrait(name, sealed) == [tag |-> "Trait", name |-> name, sealed |-> sealed]
ItemObject(case, name, items, methods, super_type) ==
    [tag |-> "Object", case |-> case, name |-> name, items |-> items,
     methods |-> methods, super_type |-> super_type]
ItemComment(text) == [tag |-> "Comment", text |-> text]
TopLevel(items) == [items |-> items]

\* A faulty hardcoded_items that puts Plural before Singular.
hardcoded_items_plural_first ==
    <<ItemPackage(<<Ident(<<"d", "k">>), Ident(<<"u", "n", "d", "o">>),
                    Ident(<<"i", "1", "8", "n">>)>>),
      ItemTrait(<<"Cardinality">>, TRUE),
      ItemObject(FALSE, <<"Cardinality">>,
          <<ItemObject(TRUE, <<"Plural">>, <<>>, <<>>, <<"Cardinality">>),
            ItemObject(TRUE, <<"Singular">>, <<>>, <<>>, <<"Cardinality">>)>>,
          <<>>, NoSuper)>>

hardcoded_items ==
    <<ItemPackage(<<Ident(<<"d", "k">>), Ident(<<"u", "n", "d", "o">>),
                    Ident(<<"i", "1", "8", "n">>)>>),
      ItemTrait(<<"Cardinality">>, TRUE),
      ItemObject(FALSE, <<"Cardinality">>,
          <<ItemObject(TRUE, <<"Singular">>, <<>>, <<>>, <<"Cardinality">>),
            ItemObject(TRUE, <<"Plural">>, <<>>, <<>>, <<"Cardinality">>)>>,
          <<>>, NoSuper)>>

\* projects.iter().flat_map(|(_, keys)| keys)
RECURSIVE AllKeys(_)
AllKeys(ps) == IF ps = <<>> THEN <<>> ELSE Head(ps).keys \o AllKeys(Tail(ps))

\* Vec<&str>::sort of a set of distinct texts.
MinStr(S) == CHOOSE x \in S : \A y \in S : StrLeq(x, y)

RECURSIVE SortStrs(_)
SortStrs(S) ==
    IF S = {} THEN <<>> ELSE <<MinStr(S)>> \o SortStrs(S \ {MinStr(S)})

\* A faulty find_locales that leaves the locales in the order the keys
\* first name them.
RECURSIVE FirstSeen(_, _)
FirstSeen(xs, seen) ==
    IF xs = <<>> THEN <<>>
    ELSE IF Head(xs) \in seen THEN FirstSeen(Tail(xs), seen)
    ELSE <<Head(xs)>> \o FirstSeen(Tail(xs), seen \cup {Head(xs)})

find_locales_in_input_order(keys) ==
    FirstSeen(Flatten([i \in DOMAIN keys |->
                  [j \in DOMAIN keys[i].translations |->
                      keys[i].translations[j].language_iso]]), {})

find_locales(keys) ==
    SortStrs({t.language_iso : t \in UNION {Range(keys[i].translations) : i \in DOMAIN keys}})

\* A faulty locale_enum_variants that names the singletons in title case.
locale_enum_variants_in_title_case(keys) ==
    [i \in 1..Len(find_locales(keys)) |->
        ItemObject(FALSE, to_title_case(find_locales(keys)[i]), <<>>, <<>>,
                   <<"Locale">>)]

locale_enum_variants(keys) ==
    LET locales == find_locales(keys)
    IN  [i \in 1..Len(locales) |->
            ItemObject(FALSE, to_camel_case(locales[i]), <<>>, <<>>, <<"Locale">>)]

\* A faulty translation_methods that leaves out the keys that fail.
RECURSIVE translation_methods_skipping(_)
translation_methods_skipping(keys) ==
    IF keys = <<>> THEN {Ok(<<>>)}
    ELSE UNION {{IF m.ok THEN Ok(<<m.value>> \o rest.value) ELSE rest :
                    rest \in translation_methods_skipping(Tail(keys))} :
                m \in translation_method(Head(keys))}

\* translation_methods: the results it can give; the first failing key ends it.
RECURSIVE translation_methods(_)
translation_methods(keys) ==
    IF keys = <<>> THEN {Ok(<<>>)}
    ELSE UNION {IF ~m.ok THEN {m}
                ELSE {IF rest.ok THEN Ok(<<m.value>> \o rest.value) ELSE rest :
                         rest \in translation_methods(Tail(keys))} :
                m \in translation_method(Head(keys))}

\* The closure of generate_code applied to the projects in turn, collected:
\* the first failing project ends it.
RECURSIVE ProjectObjects(_)
ProjectObjects(ps) ==
    IF ps = <<>> THEN {Ok(<<>>)}
    ELSE UNION {IF ~ms.ok THEN {ms}
                ELSE {IF rest.ok
                      THEN Ok(<<ItemObject(FALSE, to_mixed_case(Head(ps).name),
                                           <<>>, ms.value, NoSuper)>> \o rest.value)
                      ELSE rest :
                         rest \in ProjectObjects(Tail(ps))} :
                ms \in translation_methods(Head(ps).keys)}

\* generate_code up to its last line: the asts it can build, or its error.
generate_ast(ps) ==
    {IF ~objs.ok THEN objs
     ELSE Ok(TopLevel(
            <<ItemComment(<<"format: off">>)>>
                \o hardcoded_items
                \o <<ItemTrait(<<"Locale">>, TRUE),
                     ItemObject(FALSE, <<"Locale">>, locale_enum_variants(AllKeys(ps)),
                                <<>>, NoSuper)>>
                \o <<ItemObject(FALSE, <<"I18n">>, objs.value, <<>>, NoSuper)>>
                \o <<ItemComment(<<"format: on">>)>>)) :
     objs \in ProjectObjects(ps)}

(***************************************************************************)
(* Rendering: the impls of ToCode.  The text written is a sequence whose   *)
(* elements are the characters of the data and the program's own literals, *)
(* each literal one element.                                               *)
(***************************************************************************)
SCALA_KEYWORDS ==
    {<<"a", "b", "s", "t", "r", "a", "c", "t">>,
     <<"c", "a", "s", "e">>,
     <<"c", "a", "t", "c", "h">>,
     <<"c", "l", "a", "s", "s">>,
     <<"d", "e", "f">>,
     <<"d", "o">>,
     <<"e", "l", "s", "e">>,
     <<"e", "x", "t", "e", "n", "d", "s">>,
     <<"f", "a", "l", "s", "e">>,
     <<"f", "i", "n", "a", "l">>,
     <<"f", "i", "n", "a", "l", "l", "y">>,
     <<"f", "o", "r">>,
     <<"f", "o", "r", "S", "o", "m", "e">>,
     <<"i", "f">>,
     <<"i", "m", "p", "l", "i", "c", "i", "t">>,
     <<"i", "m", "p", "o", "r", "t">>,
     <<"l", "a", "z", "y">>,
     <<"m", "a", "t", "c", "h">>,
     <<"n", "e", "w">>,
     <<"n", "u", "l", "l">>,
     <<"o", "b", "j", "e", "c", "t">>,
     <<"o", "v", "e", "r", "r", "i", "d", "e">>,
     <<"p", "a", "c", "k", "a", "g", "e">>,
     <<"p", "r", "i", "v", "a", "t", "e">>,
     <<"p", "r", "o", "t", "e", "c", "t", "e", "d">>,
     <<"r", "e", "t", "u", "r", "n">>,
     <<"s", "e", "a", "l", "e", "d">>,
     <<"s", "u", "p", "e", "r">>,
     <<"t", "h", "i", "s">>,
     <<"t", "h", "r", "o", "w">>,
     <<"t", "r", "a", "i", "t">>,
     <<"t", "r", "u", "e">>,
     <<"t", "r", "y">>,
     <<"t", "y", "p", "e">>,
     <<"v", "a", "l">>,
     <<"v", "a", "r">>,
     <<"w", "h", "i", "l", "e">>,
     <<"w", "i", "t", "h">>,
     <<"y", "i", "e", "l", "d">>}

is_keyword(ident) == ident \in SCALA_KEYWORDS

\* spaces(count)
spaces(count) == [i \in 1..count |-> " "]

\* The back quote character (ASCII 96), which a TLA+ string cannot hold.
BackQuote == "(back quote)"

\* A faulty impl ToCode for Ident that never quotes.
IdentToCodeBare(ident, indent) == spaces(indent) \o ident.name

\* impl ToCode for Ident
IdentToCode(ident, indent) ==
    IF is_keyword(ident.name)
    THEN spaces(indent) \o <<BackQuote>> \o ident.name \o <<BackQuote>>
    ELSE spaces(indent) \o ident.name

\* value.split on the newline character
RECURSIVE SplitLines(_, _)
SplitLines(value, line) ==
    IF value = <<>> THEN <<line>>
    ELSE IF Head(value) = "\n" THEN <<line>> \o SplitLines(Tail(value), <<>>)
    ELSE SplitLines(Tail(value), Append(line, Head(value)))

\* Expr::StrLit: one line as Only, more as First, Middle.., Last.
StrLitToCode(value, interpolate, indent) ==
    LET lines == SplitLines(value, <<>>)
        start == IF interpolate THEN <<"s">> ELSE <<>>
        n == Len(lines)
    IN  IF n = 1
        THEN spaces(indent) \o start \o <<"\"\"\"">> \o lines[1] \o <<"\"\"\"">>
        ELSE spaces(indent) \o start \o <<"\"\"\"">> \o lines[1] \o <<"\n">>
                 \o Concat([i \in 1..(n - 2) |-> lines[i + 1] \o <<"\n">>])
                 \o lines[n] \o <<"\"\"\"">>

\* impl ToCode for Expr and for MatchClause
RECURSIVE ExprToCode(_, _)
RECURSIVE MatchClauseToCode(_, _)
ExprToCode(e, indent) ==
    CASE e.tag = "Match" ->
            ExprToCode(e.expr, indent) \o <<" match {", "\n">>
                \o Concat([i \in 1..Len(e.clauses) |->
                              MatchClauseToCode(e.clauses[i], indent + 2)])
                \o spaces(indent) \o <<"}", "\n">>
      [] e.tag = "StrLit" -> StrLitToCode(e.value, e.interpolate, indent)
      [] e.tag = "Var" -> IdentToCode(e.name, indent)

MatchClauseToCode(clause, indent) ==
    spaces(indent) \o <<"case ">> \o clause.pattern \o <<" => {", "\n">>
        \o ExprToCode(clause.expr, indent + 2)
        \o <<"\n", "\n">>
        \o spaces(indent) \o <<"}", "\n">>

\* impl ToCode for Param
ParamToCode(param, indent) == IdentToCode(param.name, indent) \o <<": ", param.ty>>

\* impl ToCode for Vec<Param>
ParamsToCode(params) ==
    Concat([i \in 1..Len(params) |->
               ParamToCode(params[i], 0)
                   \o (IF i < Len(params) THEN <<", ">> ELSE <<>>)])

\* impl ToCode for MethodDef
MethodDefToCode(m, indent) ==
    spaces(indent) \o <<"// ">> \o m.comment \o <<"\n">>
        \o spaces(indent) \o <<"def ">> \o IdentToCode(m.name, 0)
        \o (IF m.params # <<>>
            THEN <<"(">> \o ParamsToCode(m.params) \o <<")">> ELSE <<>>)
        \o (IF m.implicit_params # <<>>
            THEN <<"(implicit ">> \o ParamsToCode(m.implicit_params) \o <<")">>
            ELSE <<>>)
        \o <<": ", m.return_type, " = {", "\n">>
        \o ExprToCode(m.body, indent + 2)
        \o spaces(indent) \o <<"}", "\n">>

\* Item::Comment, whose rendering is not among the sources: a line comment.
CommentToCode(item, indent) == spaces(indent) \o <<"// ">> \o item.text

\* impl ToCode for Item
RECURSIVE ItemToCode(_, _)
ItemToCode(item, indent) ==
    CASE item.tag = "Package" ->
            spaces(indent) \o <<"package ">>
                \o Concat([i \in 1..Len(item.segments) |->
                              IdentToCode(item.segments[i], 0)
                                  \o (IF i < Len(item.segments) THEN <<".">> ELSE <<>>)])
      [] item.tag = "Object" ->
            spaces(indent)
                \o (IF item.case THEN <<"case ">> ELSE <<>>)
                \o <<"object ">> \o item.name
                \o (IF item.super_type # NoSuper
                    THEN <<" extends ">> \o item.super_type ELSE <<>>)
                \o (IF item.items # <<>> \/ item.methods # <<>>
                    THEN <<" {", "\n">>
                         \o Concat([i \in 1..Len(item.items) |->
                                ItemToCode(item.items[i], indent + 2)
                                    \o (IF i < Len(item.items)
                                        THEN <<"\n", "\n">> ELSE <<>>)])
                         \o (IF item.items # <<>> /\ item.methods # <<>>
                             THEN <<"\n">> ELSE <<>>)
                         \o Concat([i \in 1..Len(item.methods) |->
                                MethodDefToCode(item.methods[i], indent + 2)])
                         \o <<"\n">> \o spaces(indent) \o <<"}">>
                    ELSE <<>>)
      [] item.tag = "Trait" ->
            spaces(indent)
                \o (IF item.sealed THEN <<"sealed ">> ELSE <<>>)
                \o <<"trait ">> \o item.name
      [] item.tag = "Comment" -> CommentToCode(item, indent)

\* impl ToCode for TopLevel, and to_code
to_code(top) ==
    Concat([i \in 1..Len(top.items) |->
               ItemToCode(top.items[i], 0)
                   \o (IF i < Len(top.items) THEN <<"\n\n">> ELSE <<>>)])

\* generate_code: the results it can give, each with the ast rendered.
generate_code(ps) ==
    {IF r.ok THEN [ast |-> r.value, result |-> Ok(to_code(r.value))]
             ELSE [ast |-> None, result |-> r] :
     r \in generate_ast(ps)}

(***************************************************************************)
(* The inputs of the model.  A raw text is a run of segments (placeholder  *)
(* markers and broken markers), bare or wrapped as a cardinality payload.  *)
(***************************************************************************)
\* A key holds at most MaxSize translations and segments, counted together.
MaxSize == 4

SegS == <<"[", "%", "s", ":", "x", "]">>            \* [%s:x]
SegI == <<"[", "%", "i", ":", "x", "]">>            \* [%i:x]
SegU == <<"[", "%", "s", ":", "_", "x", "]">>       \* [%s:_x]
SegC == <<"[", "%", "i", ":", "c", "]">>            \* [%i:c]
SegD == <<"[", "%", "d", ":", "x", "]">>            \* [%d:x], a tag RE does not know
SegOpen == <<"[", "%", "s", ":">>                   \* [%s: with its end missing

Segments == {SegS, SegI, SegU, SegC, SegD, SegOpen}

\* The texts made of exactly k segments.
TextsOf(k) == {Concat(f) : f \in [1..k -> Segments]}

Shapes == {"Plain", "Object", "Array", "OneOnly"}

PluralSuffix == <<"s">>

Quote == <<"\"">>

\* {"one":"a","other":"b"}
ObjectText(a, b) ==
    <<"{">> \o Quote \o FieldOne \o Quote \o <<":">> \o Quote \o a \o Quote
        \o <<",">> \o Quote \o FieldOther \o Quote \o <<":">> \o Quote \o b \o Quote
        \o <<"}">>

\* ["a","b"]
ArrayText(a, b) ==
    <<"[">> \o Quote \o a \o Quote \o <<",">> \o Quote \o b \o Quote \o <<"]">>

\* {"one":"a"}
OneOnlyText(a) ==
    <<"{">> \o Quote \o FieldOne \o Quote \o <<":">> \o Quote \o a \o Quote \o <<"}">>

\* A raw text of the given shape around t; the plural form is t with an s.
Wrap(shape, t) ==
    CASE shape = "Plain" -> t
      [] shape = "Object" -> ObjectText(t, t \o PluralSuffix)
      [] shape = "Array" -> ArrayText(t, t \o PluralSuffix)
      [] shape = "OneOnly" -> OneOnlyText(t)

\* The raw texts of at most k segments.
RawTexts(k) == {Wrap(sh, t) : sh \in Shapes, t \in UNION {TextsOf(j) : j \in 0..k}}

LocaleEn == <<"e", "n">>
LocaleDa == <<"d", "a">>
LocaleEnGb == <<"e", "n", "_", "G", "B">>

\* The locale of a key's translations by position: en, da, en_GB, en, ...
LocaleIds == <<LocaleEn, LocaleDa, LocaleEnGb>>
LocaleAt(pos) == LocaleIds[((pos - 1) % Len(LocaleIds)) + 1]

\* struct Translation
Translation(language_iso, translation) ==
    [language_iso |-> language_iso, translation |-> translation]

\* The lists of translations of size at most budget, the first at position pos.
RECURSIVE TranslationLists(_, _)
TranslationLists(budget, pos) ==
    {<<>>} \cup
    UNION {{<<Translation(LocaleAt(pos), Wrap(sh, t))>> \o rest :
               sh \in Shapes, t \in TextsOf(k),
               rest \in TranslationLists(budget - 1 - k, pos + 1)} :
           k \in 0..(budget - 1)}

\* struct KeyName, the same name on every platform
SameName(n) == [ios |-> n, android |-> n, web |-> n, other |-> n]

NameAB == <<"a", "_", "b">>

\* struct Key (key_id, which no code reads, left out)
Key(key_name, translations, is_plural) ==
    [key_name |-> key_name, translations |-> translations, is_plural |-> is_plural]

\* The keys of SpecKey: consistently named, plural or not.
KeyInputs(size) ==
    {Key(SameName(NameAB), ts, pl) :
        ts \in TranslationLists(size, 1), pl \in BOOLEAN}

(***************************************************************************)
(* SpecExtract: find_placeholders applied to a raw text.                   *)
(***************************************************************************)
InitExtract ==
    /\ raw \in RawTexts(MaxSize - 1)
    /\ found = None
    /\ key = None
    /\ method = None
    /\ projects = None
    /\ ast = None
    /\ result = None
    /\ rerun = None

FindPlaceholders ==
    /\ found = None
    /\ found' = find_placeholders(raw)
    /\ UNCHANGED <<raw, key, method, projects, ast, result, rerun>>

NextExtract == FindPlaceholders

SpecExtract == InitExtract /\ [][NextExtract]_vars

(***************************************************************************)
(* SpecKey: translation_method applied to one key.                         *)
(***************************************************************************)
InitKey ==
    /\ key \in KeyInputs(MaxSize)
    /\ method = None
    /\ raw = None
    /\ found = None
    /\ projects = None
    /\ ast = None
    /\ result = None
    /\ rerun = None

TranslationMethod ==
    /\ method = None
    /\ method' \in translation_method(key)
    /\ UNCHANGED <<raw, found, key, projects, ast, result, rerun>>

NextKey == TranslationMethod

SpecKey == InitKey /\ [][NextKey]_vars

(***************************************************************************)
(* Spec: generate_code applied to the two projects main asks for, and run  *)
(* a second time on the same projects with their keys and translations in  *)
(* any order.                                                              *)
(***************************************************************************)
\* struct Project (project_id, which generate_code does not read, left out)
Project(name, keys) == [name |-> name, keys |-> keys]

\* let projects = vec!["Undo", "Car"]
ProjectUndo == <<"U", "n", "d", "o">>
ProjectCar == <<"C", "a", "r">>

\* A key name that differs on one platform.
NameAC == <<"a", "_", "c">>
MixedName == [ios |-> NameAB, android |-> NameAB, web |-> NameAB, other |-> NameAC]

\* The translations the keys of a unit are made of.
UnitTranslations ==
    {Translation(LocaleEn, SegS),
     Translation(LocaleDa, Wrap("Object", SegI))}

\* The lists of keys that hold at most budget keys and translations together.
RECURSIVE KeyLists(_)
KeyLists(budget) ==
    IF budget <= 0 THEN {<<>>}
    ELSE {<<>>} \cup
         UNION {{<<Key(name, ts, pl)>> \o rest :
                    name \in {SameName(NameAB), MixedName},
                    pl \in BOOLEAN,
                    ts \in [1..n -> UnitTranslations],
                    rest \in KeyLists(budget - 1 - n)} :
                n \in 0..(budget - 1)}

UnitInputs(size) ==
    UNION {{<<Project(ProjectUndo, SubSeq(ks, 1, i)),
              Project(ProjectCar, SubSeq(ks, i + 1, Len(ks)))>> :
               i \in 0..Len(ks)} :
           ks \in KeyLists(size)}

\* s without its i-th element.
Remove(s, i) == SubSeq(s, 1, i - 1) \o SubSeq(s, i + 1, Len(s))

\* The orders the elements of s can be put in.
RECURSIVE Perms(_)
Perms(s) ==
    IF s = <<>> THEN {<<>>}
    ELSE UNION {{<<s[i]>> \o rest : rest \in Perms(Remove(s, i))} : i \in 1..Len(s)}

\* A list of keys with the translations of every key in any order.
RECURSIVE ReorderTranslations(_)
ReorderTranslations(ks) ==
    IF ks = <<>> THEN {<<>>}
    ELSE {<<[Head(ks) EXCEPT !.translations = ts]>> \o rest :
             ts \in Perms(Head(ks).translations),
             rest \in ReorderTranslations(Tail(ks))}

\* The same, the keys themselves in any order too.
ReorderKeys(ks) == UNION {Perms(l) : l \in ReorderTranslations(ks)}

\* The projects in their order, the keys of each and the translations of
\* each key in any order.
RECURSIVE Reorderings(_)
Reorderings(ps) ==
    IF ps = <<>> THEN {<<>>}
    ELSE {<<[Head(ps) EXCEPT !.keys = ks]>> \o rest :
             ks \in ReorderKeys(Head(ps).keys),
             rest \in Reorderings(Tail(ps))}

Init ==
    /\ projects \in UnitInputs(MaxSize)
    /\ ast = None
    /\ result = None
    /\ rerun = None
    /\ raw = None
    /\ found = None
    /\ key = None
    /\ method = None

GenerateCode ==
    /\ result = None
    /\ \E g \in generate_code(projects) :
          /\ ast' = g.ast
          /\ result' = g.result
    /\ UNCHANGED <<projects, rerun, raw, found, key, method>>

GenerateAgain ==
    /\ result # None
    /\ rerun = None
    /\ \E ps \in Reorderings(projects) :
          \E g \in generate_code(ps) :
             rerun' = [projects |-> ps, ast |-> g.ast, result |-> g.result]
    /\ UNCHANGED <<projects, ast, result, raw, found, key, method>>

Next == GenerateCode \/ GenerateAgain

Spec == Init /\ [][Next]_vars

(***************************************************************************)
(* SpecNames: generate_code applied to projects whose key names, locale    *)
(* identifiers and placeholder names exercise the derivation of the        *)
(* identifiers of the unit: names that differ only in their separators,    *)
(* names that are Scala keywords, a locale identifier with a separator.    *)
(***************************************************************************)
NameCamel == <<"a", "B">>
NameIf == <<"i", "f">>

\* The key names of SpecNames, each the same on every platform, and those
\* of them whose keys are pluralized.
KeyNames == {NameAB, NameCamel, NameIf}
PluralNames == {NameIf}

SegKw == <<"[", "%", "s", ":", "i", "f", "]">>      \* [%s:if]

\* The translations the keys of SpecNames are made of: locale and text.
NameTranslations ==
    {Translation(LocaleEn, SegS),
     Translation(LocaleDa, SegKw),
     Translation(LocaleEnGb, SegS)}

\* translation with its text wrapped as a payload when the key is pluralized.
AsPayload(translation, pl) ==
    IF pl THEN Translation(translation.language_iso,
                           Wrap("Object", translation.translation))
    ELSE translation

\* The lists of keys that hold at most budget keys and translations together.
RECURSIVE NameKeyLists(_)
NameKeyLists(budget) ==
    IF budget <= 0 THEN {<<>>}
    ELSE {<<>>} \cup
         UNION {{<<Key(SameName(name),
                       [i \in 1..n |-> AsPayload(ts[i], name \in PluralNames)],
                       name \in PluralNames)>>
                     \o rest :
                    name \in KeyNames,
                    ts \in [1..n -> NameTranslations],
                    rest \in NameKeyLists(budget - 1 - n)} :
                n \in 0..(budget - 1)}

NameInputs(size) ==
    UNION {{<<Project(ProjectUndo, SubSeq(ks, 1, i)),
              Project(ProjectCar, SubSeq(ks, i + 1, Len(ks)))>> :
               i \in 0..Len(ks)} :
           ks \in NameKeyLists(size)}

InitNames ==
    /\ projects \in NameInputs(MaxSize)
    /\ ast = None
    /\ result = None
    /\ rerun = None
    /\ raw = None
    /\ found = None
    /\ key = None
    /\ method = None

NextNames == GenerateCode

SpecNames == InitNames /\ [][NextNames]_vars

(***************************************************************************)
(* What the properties below are stated with.  None of it is taken from    *)
(* the code: a text is recognised by its spelling.                         *)
(***************************************************************************)
\* The characters of s from position i up to the next quote.
QuotedAt(s, i) == Slice(s, i, NextQuote(s, i) - 1)

\* s read as head a mid b tail, a and b free of quotes.
SplitPayload(s, head, mid, tail) ==
    LET a == QuotedAt(s, Len(head) + 1)
        b == QuotedAt(s, Len(head) + Len(a) + Len(mid) + 1)
    IN  [matches |-> s = head \o a \o mid \o b \o tail, one |-> a, other |-> b]

\* s read as {"one":"a","other":"b"}
AsObjectPayload(s) ==
    SplitPayload(s,
        <<"{">> \o Quote \o FieldOne \o Quote \o <<":">> \o Quote,
        Quote \o <<",">> \o Quote \o FieldOther \o Quote \o <<":">> \o Quote,
        Quote \o <<"}">>)

\* s read as ["a","b"]
AsArrayPayload(s) ==
    SplitPayload(s, <<"[">> \o Quote, Quote \o <<",">> \o Quote, Quote \o <<"]">>)

IsObjectPayload(s) == AsObjectPayload(s).matches
IsArrayPayload(s) == AsArrayPayload(s).matches

\* The one and other texts of a payload of either spelling.
PayloadCases(s) == IF IsObjectPayload(s) THEN AsObjectPayload(s) ELSE AsArrayPayload(s)

AllNamesEqual(n) == Cardinality({n.ios, n.android, n.web, n.other}) = 1

\* s with every marker RE finds in it, leftmost first, replaced by the
\* reference to the parameter named after it, and nothing else changed.
RECURSIVE MarkersToRefs(_, _)
MarkersToRefs(s, p) ==
    IF p > Len(s) THEN <<>>
    ELSE LET e == RegexMatchEnd(s, p) IN
         IF e = 0 THEN <<s[p]>> \o MarkersToRefs(s, p + 1)
         ELSE <<"$", "{">> \o to_mixed_case(SubSeq(s, p + 4, e - 1)) \o <<"}">>
                  \o MarkersToRefs(s, e + 1)

\* The placeholders of every translation of k, as (name, kind) pairs.
NameKindPairs(k) ==
    {<<ph.name, ph.kind>> :
        ph \in UNION {Range(find_placeholders(k.translations[i].translation).value) :
                         i \in DOMAIN k.translations}}

\* The parameters of m that stand for placeholders.
PlaceholderParams(k, m) ==
    IF k.is_plural THEN SubSeq(m.params, 1, Len(m.params) - 1) ELSE m.params

(***************************************************************************)
(* C3, on SpecExtract.                                                     *)
(***************************************************************************)
\* C3: a raw text holding a marker whose kind tag is neither s nor i (here
\* [%d:x]) makes find_placeholders fail with the unsupported-placeholder-kind
\* error.  The code does not do this: RE matches only the tags s and i, so
\* the marker is passed over and find_placeholders succeeds.
C3_UnknownKindFails ==
    (found # None /\ Contains(raw, SegD))
        => (~found.ok /\ found.error = "UnsupportedPlaceholderKind")

(***************************************************************************)
(* C4, C8, C9, C10, on SpecKey.                                            *)
(***************************************************************************)
\* C4: for a pluralized key, one translation whose raw text is not an object
\* with a one and an other text makes translation_method fail; for a key that
\* is not pluralized no payload is decoded, so no payload error arises.  The
\* code does not do this: a two-element array of texts decodes as well.
C4_NonObjectPayloadFails ==
    method # None =>
        /\ (key.is_plural
              /\ \E i \in DOMAIN key.translations :
                    ~IsObjectPayload(key.translations[i].translation))
             => (~method.ok /\ method.error = "MalformedCardinalityPayload")
        /\ ~key.is_plural => method.ok

\* C8: the placeholder parameters of a method are one per distinct
\* (name, kind) pair found in the key's translations, in ascending order of
\* name, however the markers were written.  The code does not do this:
\* [%s:x] and [%s:_x] both become a parameter x: String.
C8_OneParamPerNameAndKind ==
    (method # None /\ method.ok) =>
        LET ps == PlaceholderParams(key, method.value)
        IN  /\ Len(ps) = Cardinality(NameKindPairs(key))
            /\ {<<ps[i].name.name, ps[i].ty>> : i \in DOMAIN ps}
                 = {<<nk[1], ParamType(nk[2])>> : nk \in NameKindPairs(key)}
            /\ \A i \in DOMAIN ps : \A j \in DOMAIN ps :
                  i < j => StrLeq(ps[i].name.name, ps[j].name.name)

\* C9: for a key that is not pluralized the body is one match on locale with
\* one clause per translation, the leaf of each being the raw text with every
\* marker replaced by the reference to its parameter and the rest unchanged.
\* The code does not do this when one marker lies inside another:
\* [%s:[%i:c][%i:c] keeps its [%s: and never refers to the parameter i:c.
C9_MarkersBecomeRefs ==
    (method # None /\ method.ok /\ ~key.is_plural) =>
        LET body == method.value.body
        IN  /\ body.tag = "Match"
            /\ body.expr = ExprVar(Ident(LocaleName))
            /\ Len(body.clauses) = Len(key.translations)
            /\ \A i \in DOMAIN key.translations :
                  /\ body.clauses[i].expr.tag = "StrLit"
                  /\ body.clauses[i].expr.value
                       = MarkersToRefs(key.translations[i].translation, 1)

\* C10: for a pluralized key whose payloads all decode, the parameters are
\* the placeholder parameters followed by cardinality: Cardinality, and the
\* body is a match on locale with one clause per translation, each a match
\* on cardinality with two clauses: Singular giving the payload's one text,
\* then Plural giving its other text, both with the key's placeholders
\* interpolated.
C10_PluralShape ==
    (method # None /\ key.is_plural /\ method.ok) =>
        \E bmp \in build_method_params(key) :
            LET m == method.value
                placeholders == bmp.value.placeholders
            IN  /\ m.params = bmp.value.method_params
                                 \o <<Param(Ident(CardinalityName), "Cardinality")>>
                /\ m.body.tag = "Match"
                /\ m.body.expr = ExprVar(Ident(LocaleName))
                /\ Len(m.body.clauses) = Len(key.translations)
                /\ \A i \in DOMAIN key.translations :
                      LET inner == m.body.clauses[i].expr
                          cases == PayloadCases(key.translations[i].translation)
                      IN  /\ cases.matches
                          /\ m.body.clauses[i].pattern
                               = LocalePattern(key.translations[i].language_iso)
                          /\ inner.tag = "Match"
                          /\ inner.expr = ExprVar(Ident(CardinalityName))
                          /\ Len(inner.clauses) = 2
                          /\ inner.clauses[1].pattern = <<"Cardinality.Singular">>
                          /\ inner.clauses[1].expr
                               = ExprStrLit(ReplaceAll(cases.one, placeholders),
                                            placeholders # <<>>)
                          /\ inner.clauses[2].pattern = <<"Cardinality.Plural">>
                          /\ inner.clauses[2].expr
                               = ExprStrLit(ReplaceAll(cases.other, placeholders),
                                            placeholders # <<>>)

\* A pluralized key of two translations with a placeholder, synthesized.
C10_Witness ==
    /\ method # None
    /\ key.is_plural
    /\ method.ok
    /\ Len(key.translations) = 2
    /\ Len(method.value.params) = 2
    /\ method.value.body.clauses[1].expr.clauses[1].expr.value # <<>>

(***************************************************************************)
(* C1, C2, C5, C6, C7, on Spec.                                            *)
(***************************************************************************)
\* A key translation_method cannot synthesize: its names differ, or it is
\* pluralized and one of its raw texts is no payload.
KeyFails(k) ==
    \/ ~AllNamesEqual(k.key_name)
    \/ /\ k.is_plural
       /\ \E i \in DOMAIN k.translations :
             /\ ~IsObjectPayload(k.translations[i].translation)
             /\ ~IsArrayPayload(k.translations[i].translation)

\* The items of a unit by name.
ObjectNamed(top, name) ==
    CHOOSE it \in Range(top.items) : it.tag = "Object" /\ it.name = name

LocaleObject(top) == ObjectNamed(top, <<"Locale">>)
ProjectObject(top, p) == ObjectNamed(top, <<"I18n">>).items[p]

\* A method without the order of its parameters and of its clauses.
Unordered(m) ==
    [name |-> m.name, comment |-> m.comment, params |-> Range(m.params),
     clauses |-> Range(m.body.clauses), scrutinee |-> m.body.expr]

\* C1: when a key whose four platform names are not all equal is among the
\* keys, generate_code returns an error and no text; the error is the
\* inconsistent-key-name error whenever no key before it, in the order of
\* the projects and of their keys, fails for another reason.
C1_InconsistentNameRejected ==
    result # None =>
        LET keys == AllKeys(projects)
        IN  \A i \in DOMAIN keys :
               ~AllNamesEqual(keys[i].key_name) =>
                   /\ ~result.ok
                   /\ ast = None
                   /\ (\A j \in 1..(i - 1) : ~KeyFails(keys[j]))
                         => result.error = "InconsistentKeyName"

\* C1 as first stated: with such a key among the keys generate_code always
\* returns the inconsistent-key-name error.  It returns the error of the
\* first key that fails, which may be a payload error of an earlier key.
C1_AlwaysNameError ==
    result # None =>
        LET keys == AllKeys(projects)
        IN  (\E i \in DOMAIN keys : ~AllNamesEqual(keys[i].key_name))
                => (~result.ok /\ result.error = "InconsistentKeyName")

\* A key with differing names after a key that synthesizes, rejected.
C1_Witness ==
    /\ result # None
    /\ Len(projects[1].keys) >= 2
    /\ ~KeyFails(projects[1].keys[1])
    /\ ~AllNamesEqual(projects[1].keys[2].key_name)
    /\ ~result.ok
    /\ result.error = "InconsistentKeyName"

\* C2: generate_code returns text exactly when every key of every project
\* synthesizes; then every project object holds one method for each of its
\* keys, and otherwise there is an error, no unit and no text.
C2_AllOrNothing ==
    result # None =>
        LET keys == AllKeys(projects)
        IN  /\ result.ok <=> (\A i \in DOMAIN keys : ~KeyFails(keys[i]))
            /\ ~result.ok => (ast = None /\ DOMAIN result = {"ok", "error"})
            /\ result.ok =>
                  \A p \in DOMAIN projects :
                     Len(ProjectObject(ast, p).methods) = Len(projects[p].keys)

\* A failing key after a key that synthesizes: an error, no unit.
C2_Witness ==
    /\ result # None
    /\ Len(projects[1].keys) >= 1
    /\ ~KeyFails(projects[1].keys[1])
    /\ \E p \in DOMAIN projects : \E i \in DOMAIN projects[p].keys :
          KeyFails(projects[p].keys[i])
    /\ ~result.ok
    /\ ast = None

\* C5: in a unit that was generated, the locale match of every method has a
\* clause for every singleton of the Locale object.  The code does not do
\* this: a method gets clauses for the translations of its own key only.
C5_EveryLocaleCovered ==
    (result # None /\ result.ok) =>
        \A p \in DOMAIN projects :
           \A i \in DOMAIN ProjectObject(ast, p).methods :
              \A v \in Range(LocaleObject(ast).items) :
                 \E c \in Range(ProjectObject(ast, p).methods[i].body.clauses) :
                    c.pattern = <<"Locale.">> \o v.name

\* C6: generate_code on the same projects with their keys and the
\* translations of each key in another order succeeds when the first run
\* did, and gives the same Locale object and for every project the same
\* methods, each with the same name, parameters and clauses; only the order
\* of the methods and of the clauses follows the order of the input.
C6_SameUpToOrder ==
    rerun # None =>
        /\ rerun.result.ok = result.ok
        /\ result.ok =>
              /\ LocaleObject(rerun.ast) = LocaleObject(ast)
              /\ \A p \in DOMAIN projects :
                    LET ms == ProjectObject(ast, p).methods
                        ns == ProjectObject(rerun.ast, p).methods
                    IN  /\ Len(ns) = Len(ms)
                        /\ {Unordered(ns[i]) : i \in DOMAIN ns}
                             = {Unordered(ms[i]) : i \in DOMAIN ms}

\* C6 as first stated: the text generated for reordered keys and
\* translations is a text the projects in their first order can give.
C6_SameText ==
    (rerun # None /\ result.ok) =>
        rerun.result \in {g.result : g \in generate_code(projects)}

\* A second run on reordered projects whose text differs from the first.
C6_Witness ==
    /\ rerun # None
    /\ rerun.projects # projects
    /\ result.ok
    /\ rerun.result.ok
    /\ rerun.result # result
    /\ Len(LocaleObject(ast).items) = 2

\* C7: generate_code run twice on the same projects gives the same result
\* twice.  The code does not do this: placeholders of one name and two kinds
\* become parameters in the order a hash set happens to give them.
C7_SameResultTwice ==
    (rerun # None /\ rerun.projects = projects) => rerun.result = result

(***************************************************************************)
(* C11, C12, C14, C16, on SpecNames.                                       *)
(***************************************************************************)
\* The locale identifiers of SpecNames in ascending order, and the name each
\* is to have as a singleton.
LocalesAscending == <<LocaleDa, LocaleEn, LocaleEnGb>>

SingletonName(id) ==
    CASE id = LocaleDa -> <<"D", "a">>
      [] id = LocaleEn -> <<"E", "n">>
      [] id = LocaleEnGb -> <<"E", "n", "G", "b">>

\* The locale identifiers some translation of some key of ps has.
LocalesUsed(ps) ==
    {AllKeys(ps)[i].translations[j].language_iso :
        <<i, j>> \in {<<i, j>> \in (DOMAIN AllKeys(ps)) \X (1..MaxSize) :
                         j <= Len(AllKeys(ps)[i].translations)}}

IsUsed(id) == id \in LocalesUsed(projects)

\* C11: the Locale object of a generated unit holds one singleton for each
\* locale identifier that a translation of a key of a project has, none
\* twice and none missing, in ascending order of the identifiers, each an
\* object extending Locale named by the identifier in camel case; and the
\* text declares each of them so.
C11_LocaleSingletons ==
    (result # None /\ result.ok) =>
        LET ids == SelectSeq(LocalesAscending, IsUsed)
            items == LocaleObject(ast).items
        IN  /\ Len(items) = Cardinality(LocalesUsed(projects))
            /\ Len(items) = Len(ids)
            /\ \A i \in DOMAIN ids :
                  /\ items[i] = [tag |-> "Object", case |-> FALSE,
                                 name |-> SingletonName(ids[i]),
                                 items |-> <<>>, methods |-> <<>>,
                                 super_type |-> <<"Locale">>]
                  /\ Contains(result.value,
                         <<"object ">> \o SingletonName(ids[i])
                             \o <<" extends ", "Locale">>)

\* A unit of one key whose translations name en_GB, da and en_GB again.
C11_Witness ==
    /\ result # None
    /\ result.ok
    /\ Len(AllKeys(projects)) = 1
    /\ Len(AllKeys(projects)[1].translations) = 3
    /\ AllKeys(projects)[1].translations[1].language_iso = LocaleEnGb
    /\ AllKeys(projects)[1].translations[2].language_iso = LocaleDa
    /\ AllKeys(projects)[1].translations[3].language_iso = LocaleEnGb
    /\ Len(LocaleObject(ast).items) = 2

\* name as an identifier is to be printed: quoted when it is a keyword.
Quoted(name) == <<BackQuote>> \o name \o <<BackQuote>>
Shown(name) == IF name \in SCALA_KEYWORDS THEN Quoted(name) ELSE name
NotShown(name) == IF name \in SCALA_KEYWORDS THEN name ELSE Quoted(name)

\* What the text has before a parameter and before a method name.
BeforeParam == {<<"(">>, <<", ">>}
BeforeName == <<"def ">>

\* The methods of a unit, of every project.
MethodsOf(top) ==
    UNION {Range(ProjectObject(top, p).methods) : p \in DOMAIN projects}

\* C12: in the text of a generated unit the name of every method, after def,
\* and the name of every parameter of its parameter list, before its type,
\* is printed between back quotes when it is one of the keywords of the
\* list, and bare and unchanged when it is not.
C12_KeywordsQuoted ==
    (result # None /\ result.ok) =>
        \A m \in MethodsOf(ast) :
           /\ Contains(result.value, BeforeName \o Shown(m.name.name))
           /\ ~Contains(result.value, BeforeName \o NotShown(m.name.name))
           /\ \A i \in DOMAIN m.params :
                 /\ \E b \in BeforeParam :
                       Contains(result.value,
                           b \o Shown(m.params[i].name.name)
                             \o <<": ", m.params[i].ty>>)
                 /\ \A b \in BeforeParam :
                       ~Contains(result.value,
                           b \o NotShown(m.params[i].name.name) \o <<": ">>)

\* A unit with a method named if that has a parameter named if, and a
\* method and a parameter whose names are no keywords.
C12_Witness ==
    /\ result # None
    /\ result.ok
    /\ Contains(result.value,
           <<"def ", BackQuote, "i", "f", BackQuote, "(",
             BackQuote, "i", "f", BackQuote, ": ", "String", ", ">>)
    /\ Contains(result.value, <<"def ", "a", "B", "(", "x", ": ", "String", ")">>)

(***************************************************************************)
(* C13, on Spec.                                                           *)
(***************************************************************************)
\* The parts of a text between the blank lines that to_code puts between
\* the items of the top level.
Breaks(text) == {i \in 1..Len(text) : text[i] = "\n\n"}

\* The position of the k-th of them; 0 before the first, past the end after
\* the last.
BreakAt(text, k) ==
    IF k = 0 THEN 0
    ELSE IF k > Cardinality(Breaks(text)) THEN Len(text) + 1
    ELSE CHOOSE i \in Breaks(text) :
            Cardinality({j \in Breaks(text) : j < i}) = k - 1

TopLevelParts(text) ==
    [k \in 1..(Cardinality(Breaks(text)) + 1) |->
        SubSeq(text, BreakAt(text, k - 1) + 1, BreakAt(text, k) - 1)]

IsDeclaration(part) == ~StartsAt(part, <<"// ">>, 1)

\* The declarations of the top level of a text, in their order.
Declarations(text) == SelectSeq(TopLevelParts(text), IsDeclaration)

\* The first position of p in s, or 0.
FirstAt(s, p) ==
    IF Contains(s, p) THEN CHOOSE i \in 1..Len(s) :
                              /\ StartsAt(s, p, i)
                              /\ \A j \in 1..(i - 1) : ~StartsAt(s, p, j)
    ELSE 0

CardinalityObjectText ==
    <<"object ", "Cardinality", " {", "\n",
      " ", " ", "case ", "object ", "Singular", " extends ", "Cardinality",
      "\n", "\n",
      " ", " ", "case ", "object ", "Plural", " extends ", "Cardinality",
      "\n", "}">>

\* The names of the objects of the two projects.
ObjectUndo == <<"u", "n", "d", "o">>
ObjectCar == <<"c", "a", "r">>

\* C13: the text of a generated unit declares, in this order and nothing
\* else: the package, the sealed trait Cardinality, the object Cardinality
\* with the case objects Singular then Plural, the sealed trait Locale, the
\* object Locale, and the object I18n, which holds one object per project
\* in the order of the projects, each holding one method per key of the
\* project in the order of the keys.
C13_FixedOrder ==
    (result # None /\ result.ok) =>
        LET ds == Declarations(result.value)
            container == ObjectNamed(ast, <<"I18n">>)
        IN  /\ Len(ds) = 6
            /\ ds[1] = <<"package ", "d", "k", ".", "u", "n", "d", "o", ".",
                         "i", "1", "8", "n">>
            /\ ds[2] = <<"sealed ", "trait ", "Cardinality">>
            /\ ds[3] = CardinalityObjectText
            /\ ds[4] = <<"sealed ", "trait ", "Locale">>
            /\ StartsAt(ds[5], <<"object ", "Locale">>, 1)
            /\ StartsAt(ds[6], <<"object ", "I18n", " {", "\n">>, 1)
            /\ FirstAt(ds[6], <<"object ">> \o ObjectUndo) > 0
            /\ FirstAt(ds[6], <<"object ">> \o ObjectUndo)
                  < FirstAt(ds[6], <<"object ">> \o ObjectCar)
            /\ Len(container.items) = Len(projects)
            /\ container.items[1].name = ObjectUndo
            /\ container.items[2].name = ObjectCar
            /\ \A p \in DOMAIN projects :
                  /\ Len(container.items[p].methods) = Len(projects[p].keys)
                  /\ \A i \in DOMAIN projects[p].keys :
                        Ok(container.items[p].methods[i])
                            \in translation_method(projects[p].keys[i])

\* A unit of two projects, the first with two keys that differ.
C13_Witness ==
    /\ result # None
    /\ result.ok
    /\ Len(projects[1].keys) = 2
    /\ projects[1].keys[1] # projects[1].keys[2]
    /\ Len(projects[2].keys) = 1
    /\ Len(Declarations(result.value)) = 6

(***************************************************************************)
(* C14 and C16, on SpecNames; C15, on SpecKey.                             *)
(***************************************************************************)
\* The singletons a unit declares in its Locale object, as patterns.
DeclaredPatterns(top) ==
    {<<"Locale.">> \o LocaleObject(top).items[i].name :
        i \in DOMAIN LocaleObject(top).items}

\* C14: in a generated unit the pattern of every clause of the locale match
\* of every method names a singleton that the Locale object declares.  The
\* code does not do this: for en_GB the pattern is Locale.En Gb, made with
\* to_title_case, and the singleton is EnGb, made with to_camel_case.
C14_PatternsAreDeclared ==
    (result # None /\ result.ok) =>
        \A m \in MethodsOf(ast) :
           \A i \in DOMAIN m.body.clauses :
              m.body.clauses[i].pattern \in DeclaredPatterns(ast)

\* The names of all parameters of a method, the implicit ones last.
ParamNames(m) ==
    [i \in 1..(Len(m.params) + Len(m.implicit_params)) |->
        IF i <= Len(m.params) THEN m.params[i].name.name
        ELSE m.implicit_params[i - Len(m.params)].name.name]

\* C15: no two parameters of a synthesized method, placeholder parameters,
\* cardinality and the implicit locale together, have the same name.  The
\* code does not do this: [%s:x] and [%i:x] become x: String and x: Int.
C15_ParamNamesDistinct ==
    (method # None /\ method.ok) =>
        \A i \in DOMAIN ParamNames(method.value) :
           \A j \in DOMAIN ParamNames(method.value) :
              i # j => ParamNames(method.value)[i] # ParamNames(method.value)[j]

\* C16: every project object of a generated unit holds one method per key
\* of the project, and two keys of a project whose names differ get methods
\* whose identifiers differ.  The code does not do the latter: the keys a_b
\* and aB both get the method aB.
C16_MethodNamesInjective ==
    (result # None /\ result.ok) =>
        \A p \in DOMAIN projects :
           LET ms == ProjectObject(ast, p).methods
               ks == projects[p].keys
           IN  /\ Len(ms) = Len(ks)
               /\ \A i \in DOMAIN ks : \A j \in DOMAIN ks :
                     ks[i].key_name.ios # ks[j].key_name.ios
                         => ms[i].name # ms[j].name

====
